---- MODULE Spec2Model ----
(***************************************************************************)
(* serve-static-bun: the static file resolver (serveStatic / getResponse), *)
(* its path normalizer (collapseSlashes) and its file probe (getFileInfo). *)
(*                                                                         *)
(* Strings are sequences of one-character strings.  A header value is a    *)
(* sequence of string pieces (its concatenation is the header's text).     *)
(* An optional value is <<>> (undefined / null) or <<v>> (the value v).    *)
(***************************************************************************)
EXTENDS Naturals, Sequences, FiniteSets, TLC

VARIABLES options, pc, req, res, probes, dotfileChecked,
          handler,   \* what serveStatic returned: the fetch handler or the Bao middleware
          ctx,       \* the Bao.js context the middleware is called with
          call,      \* the arguments of a direct call of a utility function
          ret        \* the values the utility function returned, one per call

vars == <<options, pc, req, res, probes, dotfileChecked, handler, ctx, call, ret>>

----------------------------------------------------------------------------
(* Bounds of the model *)

\* longest URL pathname a request carries
MaxLen == 5

\* longest string a utility function is called with directly
MaxStr == 5

----------------------------------------------------------------------------
(* String primitives of the JavaScript runtime, as the code uses them *)

None == <<>>
Some(v) == <<v>>

\* String.prototype.endsWith
endsWith(s, c) == Len(s) > 0 /\ s[Len(s)] = c

\* String.prototype.startsWith
startsWith(s, c) == Len(s) > 0 /\ s[1] = c

\* String.prototype.substring(from, to), 0-based, arguments clamped to [0, length]
substring(s, from, to) ==
    LET lo == IF from > Len(s) THEN Len(s) ELSE from
        hi == IF to < 0 THEN 0 ELSE IF to > Len(s) THEN Len(s) ELSE to
    IN  IF hi <= lo THEN <<>> ELSE SubSeq(s, lo + 1, hi)

\* String.prototype.indexOf, 1-based here; 0 when pat does not occur
RECURSIVE indexFrom(_, _, _)
indexFrom(s, pat, i) ==
    IF i + Len(pat) - 1 > Len(s) THEN 0
    ELSE IF \A k \in 1..Len(pat) : s[i + k - 1] = pat[k] THEN i
    ELSE indexFrom(s, pat, i + 1)

indexOf(s, pat) == indexFrom(s, pat, 1)

\* String.prototype.replace(pat, "") with a string pattern: the first occurrence only
\* variant: replaceAll() in place of replace(), every occurrence removed
RECURSIVE replaceEvery(_, _)
replaceEvery(s, pat) ==
    LET i == indexOf(s, pat)
    IN  IF i = 0 THEN s
        ELSE SubSeq(s, 1, i - 1) \o replaceEvery(SubSeq(s, i + Len(pat), Len(s)), pat)

replaceFirst(s, pat) ==
    LET i == indexOf(s, pat)
    IN  IF i = 0 THEN s
        ELSE SubSeq(s, 1, i - 1) \o SubSeq(s, i + Len(pat), Len(s))

\* variant: replace() in place of replaceAll(), so that only the first run of
\* slashes is collapsed
RECURSIVE dropLeadingSlashes(_)
dropLeadingSlashes(s) ==
    IF startsWith(s, "/") THEN dropLeadingSlashes(Tail(s)) ELSE s

replaceFirstSlashRun(s) ==
    LET i == indexOf(s, <<"/">>)
    IN  IF i = 0 THEN s
        ELSE SubSeq(s, 1, i) \o dropLeadingSlashes(SubSeq(s, i + 1, Len(s)))

\* String.prototype.replaceAll(/[/]+/g, "/"): every maximal run of slashes becomes one
RECURSIVE replaceAllSlashRuns(_)
replaceAllSlashRuns(s) ==
    IF Len(s) < 2 THEN s
    ELSE IF s[1] = "/" /\ s[2] = "/" THEN replaceAllSlashRuns(Tail(s))
    ELSE <<s[1]>> \o replaceAllSlashRuns(Tail(s))

\* String.prototype.split("/"): the pieces between slashes, empty pieces included
RECURSIVE splitFrom(_, _, _)
splitFrom(s, i, piece) ==
    IF i > Len(s) THEN <<piece>>
    ELSE IF s[i] = "/" THEN <<piece>> \o splitFrom(s, i + 1, <<>>)
    ELSE splitFrom(s, i + 1, Append(piece, s[i]))

split(s) == splitFrom(s, 1, <<>>)

\* Array.prototype.pop on the result of split: its last element
pop(a) == a[Len(a)]

----------------------------------------------------------------------------
(* utils/collapse-slashes.ts *)

\* an option left out of an options object takes its default
orDefault(opt, d) == IF opt = None THEN d ELSE opt[1]

\* the runs collapsed before the string is wrapped in slashes
collapseSlashesWrapAfter(str, opts) ==
    LET keepLeading  == orDefault(opts.keepLeading, TRUE)
        keepTrailing == orDefault(opts.keepTrailing, TRUE)
        s0 == <<"/">> \o replaceAllSlashRuns(str) \o <<"/">>
        s1 == IF ~keepLeading THEN substring(s0, 1, Len(s0)) ELSE s0
        s2 == IF ~keepTrailing THEN substring(s1, 0, Len(s1) - 1) ELSE s1
    IN  s2

\* the string not wrapped in slashes before the ends are cut
collapseSlashesNoWrap(str, opts) ==
    LET keepLeading  == orDefault(opts.keepLeading, TRUE)
        keepTrailing == orDefault(opts.keepTrailing, TRUE)
        s0 == replaceAllSlashRuns(str)
        s1 == IF ~keepLeading THEN substring(s0, 1, Len(s0)) ELSE s0
        s2 == IF ~keepTrailing THEN substring(s1, 0, Len(s1) - 1) ELSE s1
    IN  s2

\* each end cut under the other end's flag
collapseSlashesFlagsSwapped(str, opts) ==
    LET keepLeading  == orDefault(opts.keepLeading, TRUE)
        keepTrailing == orDefault(opts.keepTrailing, TRUE)
        s0 == replaceAllSlashRuns(<<"/">> \o str \o <<"/">>)
        s1 == IF ~keepTrailing THEN substring(s0, 1, Len(s0)) ELSE s0
        s2 == IF ~keepLeading THEN substring(s1, 0, Len(s1) - 1) ELSE s1
    IN  s2

collapseSlashes(str, opts) ==
    LET keepLeading  == orDefault(opts.keepLeading, TRUE)
        keepTrailing == orDefault(opts.keepTrailing, TRUE)
        s0 == replaceAllSlashRuns(<<"/">> \o str \o <<"/">>)
        s1 == IF ~keepLeading THEN substring(s0, 1, Len(s0)) ELSE s0
        s2 == IF ~keepTrailing THEN substring(s1, 0, Len(s1) - 1) ELSE s1
    IN  s2

----------------------------------------------------------------------------
(* The file tree the server runs on, and the operating system's path lookup *)

\* process.cwd() and the root argument of serveStatic
Cwd == <<"/", "w">>
RootArg == <<"r">>

\* file and directory names
nW     == <<"w">>
nR     == <<"r">>
nS     == <<"s">>
nA     == <<"a">>
nAA    == <<"a", "a">>
nAAA   == <<"a", "a", "a">>
nAdotA == <<"a", ".", "a">>
nDotA  == <<".", "a">>
nDotAA == <<".", "a", "a">>
nIndex == <<"i", ".", "h">>

\* directories, each named by its path from the filesystem root
FSDirs ==
    { <<>>, <<nW>>, <<nW, nR>>,
      <<nW, nR, nA>>,              \* a/      has an index file
      <<nW, nR, nAA>>,             \* aa/     has no index file
      <<nW, nR, nAAA>>,            \* aaa/    its index entry is a directory
      <<nW, nR, nAAA, nIndex>>,
      <<nW, nR, nDotA>> }          \* .a/     a dot-directory with an index file

\* regular files
FSFiles ==
    { <<nW, nR, nIndex>>,
      <<nW, nR, nA, nIndex>>,
      <<nW, nR, nA, nA>>,          \* a/a     no extension
      <<nW, nR, nA, nAA>>,         \* a/aa    a file the server has no permission to read
      <<nW, nR, nAdotA>>,          \* a.a
      <<nW, nR, nDotAA>>,          \* .aa     a dotfile
      <<nW, nR, nDotA, nIndex>>,
      <<nW, nR, nDotA, nA>>,       \* .a/a    a file below a dot-directory
      <<nW, nS>> }                 \* a file outside the served root

\* the regular files whose read fails with EACCES
FSUnreadable == { <<nW, nR, nA, nAA>> }

parentDir(d) == IF d = <<>> THEN <<>> ELSE SubSeq(d, 1, Len(d) - 1)

\* POSIX path resolution: the entry a path names, or the error of the lookup
RECURSIVE walk(_, _)
walk(cur, segs) ==
    IF segs = <<>> THEN [err |-> "", node |-> cur]
    ELSE IF cur \in FSFiles THEN [err |-> "ENOTDIR", node |-> cur]
    ELSE IF Head(segs) = <<>> \/ Head(segs) = <<".">> THEN walk(cur, Tail(segs))
    ELSE IF Head(segs) = <<".", ".">> THEN walk(parentDir(cur), Tail(segs))
    ELSE IF (cur \o <<Head(segs)>>) \in (FSDirs \cup FSFiles)
         THEN walk(cur \o <<Head(segs)>>, Tail(segs))
    ELSE [err |-> "ENOENT", node |-> cur]

\* Blob.arrayBuffer() of Bun.file(path): the bytes of a regular file (named here by
\* the file's place in the tree), or the error code the read fails with
arrayBuffer(path) ==
    LET w == walk(<<>>, split(path))
    IN  IF w.err # "" THEN [code |-> w.err, file |-> <<>>]
        ELSE IF w.node \in FSDirs THEN [code |-> "EISDIR", file |-> <<>>]
        ELSE IF w.node \in FSUnreadable THEN [code |-> "EACCES", file |-> <<>>]
        ELSE [code |-> "", file |-> w.node]

\* Bun.file(path).type: guessed from the extension of the path
blobType(path) ==
    LET base == pop(split(path))
        dots == { i \in 2..Len(base) : base[i] = "." }
        ext  == IF dots = {} THEN <<>>
                ELSE LET d == CHOOSE i \in dots : \A j \in dots : j <= i
                     IN  SubSeq(base, d + 1, Len(base))
    IN  IF ext = <<"h">> THEN <<"text/html", ";charset", "=utf-8">>
        ELSE IF ext = <<"a">> THEN <<"text/css", ";charset", "=utf-8">>
        ELSE <<"application/octet-stream">>

----------------------------------------------------------------------------
(* utils/get-file-info.ts *)

getMimeType(type) ==
    LET charsetIndex == indexOf(type, <<";charset">>)
    IN  IF charsetIndex # 0 THEN SubSeq(type, 1, charsetIndex - 1) ELSE type

\* every failure of the read carries an error code
isErrorlike(error) == error.code # ""

\* variant: only a lookup that finds nothing gives exists = false
getFileInfoOtherErrorExists(path) ==
    LET read == arrayBuffer(path)
        blob == [path |-> path, type |-> blobType(path), file |-> read.file]
    IN  IF read.code = ""
        THEN [blob |-> blob, exists |-> TRUE, isFile |-> TRUE,
              mimeType |-> IF getMimeType(blob.type) = <<"application/octet-stream">>
                           THEN None ELSE Some(getMimeType(blob.type))]
        ELSE IF isErrorlike(read) /\ read.code \notin {"ENOENT", "ENOTDIR"}
        THEN [blob |-> blob, exists |-> TRUE, isFile |-> FALSE, mimeType |-> None]
        ELSE [blob |-> blob, exists |-> FALSE, isFile |-> FALSE, mimeType |-> None]

\* variant: no case for EISDIR in the catch block
getFileInfoDirMissing(path) ==
    LET read == arrayBuffer(path)
        blob == [path |-> path, type |-> blobType(path), file |-> read.file]
    IN  IF read.code = ""
        THEN [blob |-> blob, exists |-> TRUE, isFile |-> TRUE,
              mimeType |-> IF getMimeType(blob.type) = <<"application/octet-stream">>
                           THEN None ELSE Some(getMimeType(blob.type))]
        ELSE [blob |-> blob, exists |-> FALSE, isFile |-> FALSE, mimeType |-> None]

getFileInfo(path) ==
    LET read == arrayBuffer(path)
        blob == [path |-> path, type |-> blobType(path), file |-> read.file]
    IN  IF read.code = ""
        THEN [blob |-> blob, exists |-> TRUE, isFile |-> TRUE,
              mimeType |-> IF getMimeType(blob.type) = <<"application/octet-stream">>
                           THEN None ELSE Some(getMimeType(blob.type))]
        ELSE IF isErrorlike(read) /\ read.code = "EISDIR"
        THEN [blob |-> blob, exists |-> TRUE, isFile |-> FALSE, mimeType |-> None]
        ELSE [blob |-> blob, exists |-> FALSE, isFile |-> FALSE, mimeType |-> None]

----------------------------------------------------------------------------
(* Objects, Headers and Response of the runtime *)

\* An object literal is the sequence of its <<key, value>> properties in insertion
\* order.  Writing a key that exists replaces its value; a new key is added last.
RECURSIVE setKey(_, _, _)
setKey(obj, k, v) ==
    IF obj = <<>> THEN << <<k, v>> >>
    ELSE IF Head(obj)[1] = k THEN << <<k, v>> >> \o Tail(obj)
    ELSE <<Head(obj)>> \o setKey(Tail(obj), k, v)

\* {...headers}: the own enumerable properties of the HeadersInit value.  A plain
\* object gives its properties, a Headers instance has none, an array of pairs
\* gives one property per index whose value is the pair (a string "name,value"
\* once it is used as a header value), undefined gives nothing.
spread(headers) ==
    IF headers = None THEN <<>>
    ELSE IF headers[1].form = "record" THEN headers[1].entries
    ELSE IF headers[1].form = "instance" THEN <<>>
    ELSE [ i \in 1..Len(headers[1].entries) |->
             << ToString(i - 1),
                <<headers[1].entries[i][1], ",">> \o headers[1].entries[i][2] >> ]

\* header names are case-insensitive: Headers stores them in lower case
lowercase(name) ==
    CASE name = "Content-Type" -> "content-type"
      [] name = "Location"     -> "location"
      [] name = "X-Extra"      -> "x-extra"
      [] OTHER                 -> name

\* Headers.append: a name already present gets the new value joined with ", "
appendHeader(h, name, value) ==
    IF lowercase(name) \in DOMAIN h
    THEN [h EXCEPT ![lowercase(name)] = @ \o <<", ">> \o value]
    ELSE h @@ (lowercase(name) :> value)

\* new Headers(record): every property is appended in order
RECURSIVE fillHeaders(_, _)
fillHeaders(h, obj) ==
    IF obj = <<>> THEN h
    ELSE fillHeaders(appendHeader(h, Head(obj)[1], Head(obj)[2]), Tail(obj))

NoHeaders == [n \in {} |-> <<>>]

textBody(t) == [kind |-> "text", text |-> t, file |-> <<>>, type |-> <<>>]
blobBody(b) == [kind |-> "blob", text |-> "", file |-> b.file, type |-> b.type]
noBody      == [kind |-> "none", text |-> "", file |-> <<>>, type |-> <<>>]

\* new Response(body, {status, headers}): status 200 unless given; a body with a
\* type of its own supplies Content-Type when the headers have none
Response(body, status, headers) ==
    LET h == fillHeaders(NoHeaders, headers)
    IN  [ status  |-> orDefault(status, 200),
          body    |-> body,
          headers |-> IF "content-type" \in DOMAIN h THEN h
                      ELSE IF body.kind = "text"
                           THEN h @@ ("content-type" :> <<"text/plain", ";charset=", "UTF-8">>)
                      ELSE IF body.kind = "blob" /\ body.type # <<>>
                           THEN h @@ ("content-type" :> body.type)
                      ELSE h ]

----------------------------------------------------------------------------
(* serve-static.ts *)

\* root = `${process.cwd()}/${root}`
root == Cwd \o <<"/">> \o RootArg

getPathname(pathname, stripFromPathname) ==
    IF stripFromPathname # None /\ stripFromPathname[1] # <<>>
    THEN replaceFirst(pathname, stripFromPathname[1])
    ELSE pathname

\* variant: the trailing slash is cut off when the target is a regular file
getRedirectPathFileSlashCut(pathname, requestedFile, o) ==
    LET collapsed ==
            IF o.collapseSlashes
            THEN collapseSlashes(pathname,
                     [keepLeading |-> None,
                      keepTrailing |-> Some(endsWith(pathname, "/") /\ ~requestedFile.isFile)])
            ELSE pathname
    IN  IF o.dirTrailingSlash /\ ~requestedFile.isFile /\ ~endsWith(collapsed, "/")
        THEN collapsed \o <<"/">>
        ELSE collapsed

getRedirectPath(pathname, requestedFile, o) ==
    LET collapsed ==
            IF o.collapseSlashes
            THEN collapseSlashes(pathname,
                     [keepLeading |-> None, keepTrailing |-> Some(endsWith(pathname, "/"))])
            ELSE pathname
    IN  IF o.dirTrailingSlash /\ ~requestedFile.isFile /\ ~endsWith(collapsed, "/")
        THEN collapsed \o <<"/">>
        ELSE collapsed

\* variant: the index is served as soon as its probe reports exists
getFileToServeIndexExists(pathname, requestedFile, rootDir, o) ==
    LET isDotfile == startsWith(pop(split(pathname)), ".")
        indexPath == rootDir \o <<"/">> \o pathname \o <<"/">> \o o.index[1]
        indexFile == getFileInfo(indexPath)
    IN  IF requestedFile.isFile /\ (~isDotfile \/ o.dotfiles = "allow")
        THEN [file |-> Some(requestedFile), probes |-> <<>>]
        ELSE IF o.index = None
        THEN [file |-> None, probes |-> <<>>]
        ELSE IF indexFile.exists
        THEN [file |-> Some(indexFile), probes |-> <<indexPath>>]
        ELSE [file |-> None, probes |-> <<indexPath>>]

\* variant: the requested entry is served as soon as it exists, file or not
getFileToServeAnyEntry(pathname, requestedFile, rootDir, o) ==
    LET isDotfile == startsWith(pop(split(pathname)), ".")
        indexPath == rootDir \o <<"/">> \o pathname \o <<"/">> \o o.index[1]
        indexFile == getFileInfo(indexPath)
    IN  IF requestedFile.exists /\ (~isDotfile \/ o.dotfiles = "allow")
        THEN [file |-> Some(requestedFile), probes |-> <<>>]
        ELSE IF o.index = None
        THEN [file |-> None, probes |-> <<>>]
        ELSE IF indexFile.exists /\ indexFile.isFile
        THEN [file |-> Some(indexFile), probes |-> <<indexPath>>]
        ELSE [file |-> None, probes |-> <<indexPath>>]

\* the result carries, next to the file to serve (None for null), the probes made
getFileToServe(pathname, requestedFile, rootDir, o) ==
    LET isDotfile == startsWith(pop(split(pathname)), ".")
        indexPath == rootDir \o <<"/">> \o pathname \o <<"/">> \o o.index[1]
        indexFile == getFileInfo(indexPath)
    IN  IF requestedFile.isFile /\ (~isDotfile \/ o.dotfiles = "allow")
        THEN [file |-> Some(requestedFile), probes |-> <<>>]
        ELSE IF o.index = None
        THEN [file |-> None, probes |-> <<>>]
        ELSE IF indexFile.exists /\ indexFile.isFile
        THEN [file |-> Some(indexFile), probes |-> <<indexPath>>]
        ELSE [file |-> None, probes |-> <<indexPath>>]

contentType(mime, charset) == mime \o <<"; charset=", charset>>

\* the four responses getResponse builds
notFoundResponse(o) ==
    Response(textBody("404 Not Found"), Some(404),
             setKey(spread(o.headers), "Content-Type",
                    contentType(<<"text/plain">>, o.charset)))

\* variant: the redirect is given a Content-Type like the other responses
redirectResponseWithContentType(redirectPath, o) ==
    Response(noBody, Some(308),
             setKey(setKey(spread(o.headers), "Location", redirectPath),
                    "Content-Type", contentType(<<"text/plain">>, o.charset)))

\* variant: the redirect is sent without its Location
redirectResponseNoLocation(redirectPath, o) ==
    Response(noBody, Some(308), spread(o.headers))

redirectResponse(redirectPath, o) ==
    Response(noBody, Some(308),
             setKey(spread(o.headers), "Location", redirectPath))

fileResponse(fileToServe, o) ==
    Response(blobBody(fileToServe.blob), None,
             setKey(spread(o.headers), "Content-Type",
                    contentType(orDefault(fileToServe.mimeType, o.defaultMimeType),
                                o.charset)))

forbiddenResponse(o) ==
    Response(textBody("403 Forbidden"), Some(403),
             setKey(spread(o.headers), "Content-Type",
                    contentType(<<"text/plain">>, o.charset)))

\* variant: the redirect is decided before the existence check
getResponseRedirectFirst(urlPathname, o) ==
    LET pathname      == getPathname(urlPathname, o.stripFromPathname)
        requestedPath == root \o <<"/">> \o pathname
        requestedFile == getFileInfo(requestedPath)
        redirectPath  == getRedirectPath(pathname, requestedFile, o)
        toServe       == getFileToServe(pathname, requestedFile, root, o)
    IN  IF redirectPath # pathname
        THEN [ response |-> redirectResponse(redirectPath, o),
               probes |-> <<requestedPath>>, dotfileChecked |-> FALSE ]
        ELSE IF ~requestedFile.exists
        THEN [ response |-> notFoundResponse(o),
               probes |-> <<requestedPath>>, dotfileChecked |-> FALSE ]
        ELSE IF toServe.file # None
        THEN [ response |-> fileResponse(toServe.file[1], o),
               probes |-> <<requestedPath>> \o toServe.probes, dotfileChecked |-> TRUE ]
        ELSE [ response |-> forbiddenResponse(o),
               probes |-> <<requestedPath>> \o toServe.probes, dotfileChecked |-> TRUE ]

\* the handler: the response, the paths probed in order, and whether
\* getFileToServe (with its dotfile test) was called
\* variant: the file to serve is looked for before the redirect is decided
getResponseServeLookupFirst(urlPathname, o) ==
    LET pathname      == getPathname(urlPathname, o.stripFromPathname)
        requestedPath == root \o <<"/">> \o pathname
        requestedFile == getFileInfo(requestedPath)
        redirectPath  == getRedirectPath(pathname, requestedFile, o)
        toServe       == getFileToServe(pathname, requestedFile, root, o)
    IN  IF ~requestedFile.exists
        THEN [ response |-> notFoundResponse(o),
               probes |-> <<requestedPath>>, dotfileChecked |-> FALSE ]
        ELSE IF redirectPath # pathname
        THEN [ response |-> redirectResponse(redirectPath, o),
               probes |-> <<requestedPath>> \o toServe.probes, dotfileChecked |-> TRUE ]
        ELSE IF toServe.file # None
        THEN [ response |-> fileResponse(toServe.file[1], o),
               probes |-> <<requestedPath>> \o toServe.probes, dotfileChecked |-> TRUE ]
        ELSE [ response |-> forbiddenResponse(o),
               probes |-> <<requestedPath>> \o toServe.probes, dotfileChecked |-> TRUE ]

getResponse(urlPathname, o) ==
    LET pathname      == getPathname(urlPathname, o.stripFromPathname)
        requestedPath == root \o <<"/">> \o pathname
        requestedFile == getFileInfo(requestedPath)
        redirectPath  == getRedirectPath(pathname, requestedFile, o)
        toServe       == getFileToServe(pathname, requestedFile, root, o)
    IN  IF ~requestedFile.exists
        THEN [ response |-> notFoundResponse(o),
               probes |-> <<requestedPath>>, dotfileChecked |-> FALSE ]
        ELSE IF redirectPath # pathname
        THEN [ response |-> redirectResponse(redirectPath, o),
               probes |-> <<requestedPath>>, dotfileChecked |-> FALSE ]
        ELSE IF toServe.file # None
        THEN [ response |-> fileResponse(toServe.file[1], o),
               probes |-> <<requestedPath>> \o toServe.probes, dotfileChecked |-> TRUE ]
        ELSE [ response |-> forbiddenResponse(o),
               probes |-> <<requestedPath>> \o toServe.probes, dotfileChecked |-> TRUE ]

----------------------------------------------------------------------------
(* The options serveStatic is set up with, and the requests it receives *)

HeadersInits ==
    { None,
      \* a plain object whose names are spelled as the resolver spells them
      Some([form |-> "record",
            entries |-> << <<"X-Extra", <<"1">>>>,
                           <<"Content-Type", <<"text/evil">>>>,
                           <<"Location", <<"/evil">>>> >>]),
      \* a plain object whose names are spelled in lower case
      Some([form |-> "record",
            entries |-> << <<"content-type", <<"text/evil">>>>,
                           <<"location", <<"/evil">>>> >>]),
      Some([form |-> "instance", entries |-> << <<"X-Extra", <<"1">>>> >>]),
      Some([form |-> "pairs",    entries |-> << <<"X-Extra", <<"1">>>> >>]) }

\* what the caller passes: each option either left out (None) or given
UserOptions ==
    [ index             : {None, Some(None), Some(Some(nIndex))},
      dirTrailingSlash  : {None, Some(TRUE), Some(FALSE)},
      collapseSlashes   : {None, Some(TRUE), Some(FALSE)},
      stripFromPathname : {None, Some(<<"/", "a">>)},
      headers           : HeadersInits,
      dotfiles          : {None, Some("allow"), Some("deny")},
      defaultMimeType   : {None, Some(<<"text/x-default">>)},
      charset           : {None} ]

\* the destructuring with defaults at the top of serveStatic
resolveOptions(u) ==
    [ index             |-> orDefault(u.index, Some(nIndex)),
      dirTrailingSlash  |-> orDefault(u.dirTrailingSlash, TRUE),
      collapseSlashes   |-> orDefault(u.collapseSlashes, TRUE),
      stripFromPathname |-> u.stripFromPathname,
      headers           |-> u.headers,
      dotfiles          |-> orDefault(u.dotfiles, "deny"),
      defaultMimeType   |-> orDefault(u.defaultMimeType, <<"text/plain">>),
      charset           |-> orDefault(u.charset, "utf-8") ]

\* Object.hasOwn(options, "middlewareMode")
isMiddleware(u) == "middlewareMode" \in DOMAIN u

\* what serveStatic returns: getResponse itself, or, when the options have a
\* middlewareMode of "bao", the Bao.js middleware around it with the handleErrors
\* it was built with (read in middleware mode only).  passed is the handleErrors
\* option as the caller gave it.
serveStatic(u) ==
    IF isMiddleware(u) /\ u.middlewareMode = Some("bao")
    THEN [kind |-> "bao", handleErrors |-> orDefault(u.handleErrors, TRUE),
          passed |-> u.handleErrors]
    ELSE [kind |-> "fetch", handleErrors |-> TRUE, passed |-> None]

\* characters a request pathname is made of
PathChars == {"/", ".", "a"}

\* the pathnames URL parsing can produce: a leading slash, no "." or ".." segment
URLPathnames ==
    { p \in UNION { [1..n -> PathChars] : n \in 1..MaxLen } :
        /\ p[1] = "/"
        /\ \A i \in 1..Len(split(p)) :
              split(p)[i] # <<".">> /\ split(p)[i] # <<".", ".">> }

----------------------------------------------------------------------------
(* The state machine: one resolver, set up once, answering a request *)

Init ==
    /\ \E u \in UserOptions :
          /\ options = resolveOptions(u)
          /\ handler = serveStatic(u)
    /\ pc = "idle"
    /\ req = <<>>
    /\ res = None
    /\ probes = <<>>
    /\ dotfileChecked = FALSE
    /\ ctx = None
    /\ call = None
    /\ ret = <<>>

\* Bun.serve calls the handler with a request: the first request of a client, or
\* the request of a client that follows the redirect it was answered with
Fetch(p) ==
    /\ pc \in {"idle", "following"}
    /\ handler.kind = "fetch"
    /\ pc' = IF pc = "idle" THEN "done" ELSE "followed"
    /\ req' = p
    /\ LET r == getResponse(p, options)
       IN  /\ res' = r.response
           /\ probes' = probes \o r.probes
           /\ dotfileChecked' = r.dotfileChecked
    /\ UNCHANGED <<options, handler, ctx, call, ret>>

Next == \E p \in URLPathnames : Fetch(p)

Spec == Init /\ [][Next]_vars

----------------------------------------------------------------------------
(* types.ts: the Bao.js middleware, and serveStatic in middleware mode *)

\* a fresh Bao.js context: no response set, not locked; ops lists the send
\* operations called on it
newContext == [res |-> None, locked |-> FALSE, ops |-> <<>>]

\* ctx.sendRaw(res): sets the response of the context and returns the context
sendRaw(c, r) == [c EXCEPT !.res = Some(r), !.ops = Append(@, "sendRaw")]

\* ctx.forceSend(): locks the context, so that Bao.js sends its response without
\* running any further route or middleware, and returns the context
forceSend(c) == [c EXCEPT !.locked = TRUE, !.ops = Append(@, "forceSend")]

\* the middleware with only the 404 left to the other routes
getBaoMiddleware403Sent(r, handleErrors, c) ==
    IF r.status = 404
    THEN IF handleErrors THEN forceSend(sendRaw(c, r)) ELSE c
    ELSE forceSend(sendRaw(c, r))

\* the middleware getBaoMiddleware(getResponse, handleErrors) returns, applied to
\* the context c once getResponse(c.req) has given the response r
getBaoMiddleware(r, handleErrors, c) ==
    IF r.status = 403 \/ r.status = 404
    THEN IF handleErrors THEN forceSend(sendRaw(c, r)) ELSE c
    ELSE forceSend(sendRaw(c, r))

\* the options serveStatic is given in middleware mode
MiddlewareUserOptions ==
    [ index             : {None, Some(None)},
      dirTrailingSlash  : {None, Some(FALSE)},
      collapseSlashes   : {None, Some(FALSE)},
      stripFromPathname : {None},
      headers           : {None},
      dotfiles          : {None, Some("allow")},
      defaultMimeType   : {None},
      charset           : {None},
      middlewareMode    : {Some("bao")},
      handleErrors      : {None, Some(TRUE), Some(FALSE)} ]

InitBao ==
    /\ \E u \in MiddlewareUserOptions :
          /\ options = resolveOptions(u)
          /\ handler = serveStatic(u)
    /\ pc = "idle"
    /\ req = <<>>
    /\ res = None
    /\ probes = <<>>
    /\ dotfileChecked = FALSE
    /\ ctx = newContext
    /\ call = None
    /\ ret = <<>>

\* Bao.js calls the middleware with the context of a request
Middleware(p) ==
    /\ pc = "idle"
    /\ handler.kind = "bao"
    /\ pc' = "done"
    /\ req' = p
    /\ LET r == getResponse(p, options)
       IN  /\ res' = r.response
           /\ probes' = r.probes
           /\ dotfileChecked' = r.dotfileChecked
           /\ ctx' = getBaoMiddleware(r.response, handler.handleErrors, ctx)
    /\ UNCHANGED <<options, handler, call, ret>>

NextBao == \E p \in URLPathnames : Middleware(p)

SpecBao == InitBao /\ [][NextBao]_vars

----------------------------------------------------------------------------
(* A client that follows the redirect of the resolver *)

\* the options of the resolver the client talks to
ClientUserOptions ==
    [ index             : {None, Some(None)},
      dirTrailingSlash  : {None, Some(FALSE)},
      collapseSlashes   : {None, Some(FALSE)},
      stripFromPathname : {None, Some(<<"/", "a">>), Some(<<"a">>)},
      headers           : {None},
      dotfiles          : {None, Some("allow")},
      defaultMimeType   : {None},
      charset           : {None} ]

InitClient ==
    /\ \E u \in ClientUserOptions :
          /\ options = resolveOptions(u)
          /\ handler = serveStatic(u)
    /\ pc = "idle"
    /\ req = <<>>
    /\ res = None
    /\ probes = <<>>
    /\ dotfileChecked = FALSE
    /\ ctx = None
    /\ call = None
    /\ ret = <<>>

\* the path of a URL: "." segments dropped, ".." segments taking the segment
\* before them away, as URL parsing does; done is the list of segments kept
RECURSIVE dropDotSegments(_, _)
dropDotSegments(segs, done) ==
    IF segs = <<>> THEN done
    ELSE IF Head(segs) = <<".">>
         THEN IF Tail(segs) = <<>> THEN Append(done, <<>>)
              ELSE dropDotSegments(Tail(segs), done)
    ELSE IF Head(segs) = <<".", ".">>
         THEN LET up == IF done = <<>> THEN <<>> ELSE SubSeq(done, 1, Len(done) - 1)
              IN  IF Tail(segs) = <<>> THEN Append(up, <<>>)
                  ELSE dropDotSegments(Tail(segs), up)
    ELSE dropDotSegments(Tail(segs), Append(done, Head(segs)))

RECURSIVE joinPath(_)
joinPath(segs) ==
    IF segs = <<>> THEN <<>> ELSE <<"/">> \o Head(segs) \o joinPath(Tail(segs))

\* the pathname of the URL a path-absolute string stands for
urlPathname(path) == joinPath(dropDotSegments(Tail(split(path)), <<>>))

\* the directory part of a pathname: up to and with its last slash
RECURSIVE dirname(_)
dirname(path) ==
    IF path = <<>> \/ endsWith(path, "/") THEN path
    ELSE dirname(SubSeq(path, 1, Len(path) - 1))

\* the Location stays on the host of the request: it is no scheme-relative
\* reference (one that begins with two slashes)
sameHost(location) == ~(Len(location) >= 2 /\ location[1] = "/" /\ location[2] = "/")

\* the pathname the client requests for a Location, resolved against the
\* pathname base of the request that was redirected
resolveLocation(base, location) ==
    IF startsWith(location, "/") THEN urlPathname(location)
    ELSE urlPathname(dirname(base) \o location)

\* the client turns to the Location of a 308 response that stays on the host
Follow ==
    /\ pc = "done"
    /\ handler.kind = "fetch"
    /\ res.status = 308
    /\ sameHost(res.headers["location"])
    /\ pc' = "following"
    /\ req' = resolveLocation(req, res.headers["location"])
    /\ UNCHANGED <<options, handler, res, probes, dotfileChecked, ctx, call, ret>>

\* the requests of the client: any pathname first, then the Location it follows
ClientRequests == IF pc = "following" THEN {req} ELSE URLPathnames

NextClient == (\E p \in ClientRequests : Fetch(p)) \/ Follow

SpecClient == InitClient /\ [][NextClient]_vars

----------------------------------------------------------------------------
(* Direct calls of the utility functions collapseSlashes and getFileInfo *)

\* the strings collapseSlashes is called with, and the paths below the served
\* root getFileInfo is called with
Strings == UNION { [1..n -> PathChars] : n \in 0..MaxStr }

Flags == {None, Some(TRUE), Some(FALSE)}

Calls ==
    [fn : {"collapseSlashes"}, str : Strings, keepLeading : Flags, keepTrailing : Flags]
    \cup [fn : {"getFileInfo"}, path : { root \o <<"/">> \o s : s \in Strings }]

InitCall ==
    /\ call \in Calls
    /\ ret = <<>>
    /\ pc = "idle"
    /\ options = None
    /\ handler = [kind |-> "none", handleErrors |-> TRUE, passed |-> None]
    /\ req = <<>>
    /\ res = None
    /\ probes = <<>>
    /\ dotfileChecked = FALSE
    /\ ctx = None

callOptions == [keepLeading |-> call.keepLeading, keepTrailing |-> call.keepTrailing]

\* collapseSlashes(str, { keepLeading, keepTrailing })
CallCollapseSlashes ==
    /\ pc = "idle"
    /\ call.fn = "collapseSlashes"
    /\ pc' = "returned"
    /\ ret' = <<collapseSlashes(call.str, callOptions)>>
    /\ UNCHANGED <<options, handler, req, res, probes, dotfileChecked, ctx, call>>

\* collapseSlashes called on its own result, with the same options
CallCollapseSlashesAgain ==
    /\ pc = "returned"
    /\ call.fn = "collapseSlashes"
    /\ Len(ret) = 1
    /\ ret' = Append(ret, collapseSlashes(ret[1], callOptions))
    /\ UNCHANGED <<options, handler, req, res, probes, dotfileChecked, ctx, call, pc>>

\* await getFileInfo(path)
CallGetFileInfo ==
    /\ pc = "idle"
    /\ call.fn = "getFileInfo"
    /\ pc' = "returned"
    /\ ret' = <<getFileInfo(call.path)>>
    /\ UNCHANGED <<options, handler, req, res, probes, dotfileChecked, ctx, call>>

NextCall == CallCollapseSlashes \/ CallCollapseSlashesAgain \/ CallGetFileInfo

SpecCall == InitCall /\ [][NextCall]_vars

----------------------------------------------------------------------------
(* Vocabulary of the properties *)

Done == pc = "done"

\* the prefix-stripped pathname of the request, and what the probe says of it
Pathname == getPathname(req, options.stripFromPathname)
Target == getFileInfo(root \o <<"/">> \o Pathname)

\* the redirect path computed for the request
RedirectPath == getRedirectPath(Pathname, Target, options)

hasHeader(name) == name \in DOMAIN res.headers

hasSlashRun(s) == \E i \in 1..(Len(s) - 1) : s[i] = "/" /\ s[i + 1] = "/"

\* the non-empty segments of a path, joined by single slashes, between two slashes
RECURSIVE joinSegments(_)
joinSegments(segs) ==
    IF segs = <<>> THEN <<>>
    ELSE IF Head(segs) = <<>> THEN joinSegments(Tail(segs))
    ELSE Head(segs) \o <<"/">> \o joinSegments(Tail(segs))

canonicalDirPath(s) == <<"/">> \o joinSegments(split(s))

\* the path of the index file below the requested directory, and its probe
IndexPath == root \o <<"/">> \o Pathname \o <<"/">> \o options.index[1]
IndexProbe == getFileInfo(IndexPath)
IndexServable == options.index # None /\ IndexProbe.exists /\ IndexProbe.isFile

\* the request is for an existing directory and needs no redirect
DirNoRedirect == Target.exists /\ ~Target.isFile /\ RedirectPath = Pathname

\* the final segment of the pathname starts with a dot
FinalSegmentDotted == startsWith(pop(split(Pathname)), ".")

\* the value v ends with the pieces of w
endsWithPieces(v, w) ==
    Len(v) >= Len(w) /\ SubSeq(v, Len(v) - Len(w) + 1, Len(v)) = w

\* the name of the requested entry (the last non-empty segment of the pathname)
RECURSIVE lastName(_)
lastName(segs) ==
    IF segs = <<>> THEN <<>>
    ELSE IF pop(segs) # <<>> THEN pop(segs)
    ELSE lastName(SubSeq(segs, 1, Len(segs) - 1))

\* the requested entry is a dotfile: its name begins with a dot
TargetIsDotfile ==
    /\ startsWith(lastName(split(Pathname)), ".")
    /\ lastName(split(Pathname)) # <<".">>
    /\ lastName(split(Pathname)) # <<".", ".">>

\* the extra headers the caller configured, as <<name, value>> pairs
CallerHeaders ==
    IF options.headers = None THEN {}
    ELSE { options.headers[1].entries[i] : i \in 1..Len(options.headers[1].entries) }

callerSupplies(name) == \E e \in CallerHeaders : lowercase(e[1]) = name

\* the Content-Type value the resolver itself gives a response
OwnContentType ==
    IF res.status = 200
    THEN contentType(IF getMimeType(res.body.type) = <<"application/octet-stream">>
                     THEN options.defaultMimeType
                     ELSE getMimeType(res.body.type),
                     options.charset)
    ELSE contentType(<<"text/plain">>, options.charset)

----------------------------------------------------------------------------
(* C1 *)

\* C1: a request whose stripped pathname has no filesystem entry (the probe
\* reports exists = false) is answered 404 and never 308, whatever collapseSlashes
\* and dirTrailingSlash are and whatever slashes the pathname has.
C1_MissingIs404 ==
    (Done /\ ~Target.exists) => res.status = 404

\* a missing path with a duplicate slash and a trailing slash, both redirect
\* options on, answered 404
C1_Witness ==
    /\ Done
    /\ ~Target.exists
    /\ options.collapseSlashes /\ options.dirTrailingSlash
    /\ hasSlashRun(Pathname) /\ endsWith(Pathname, "/")
    /\ res.status = 404

----------------------------------------------------------------------------
(* C2 *)

\* C2: with the options at their defaults (collapseSlashes and dirTrailingSlash
\* true, no extra headers), a request for an existing directory whose pathname has
\* a run of slashes or lacks the trailing slash is answered 308 with Location the
\* pathname with every run of slashes collapsed and exactly one trailing slash.
C2_DirRedirectLocation ==
    ( /\ Done
      /\ options.collapseSlashes /\ options.dirTrailingSlash
      /\ options.headers = None
      /\ Target.exists /\ ~Target.isFile
      /\ (hasSlashRun(Pathname) \/ ~endsWith(Pathname, "/")) )
    => ( /\ res.status = 308
         /\ hasHeader("location")
         /\ res.headers["location"] = canonicalDirPath(Pathname) )

\* //a// (directory a exists) redirected to /a/
C2_Witness ==
    /\ Done
    /\ options.collapseSlashes /\ options.dirTrailingSlash
    /\ options.headers = None /\ options.stripFromPathname = None
    /\ req = <<"/", "/", "a", "/", "/">>
    /\ res.status = 308
    /\ res.headers["location"] = <<"/", "a", "/">>

----------------------------------------------------------------------------
(* C3 *)

\* C3: redirect takes precedence over serving: when the target exists and the
\* computed redirect path differs from the pathname, the response is a 308 whose
\* Location equals the computed path, with no content, and neither the dotfile
\* test nor the index probe is made; no redirect carries content.
C3_RedirectPrecedence ==
    /\ (Done /\ Target.exists /\ RedirectPath # Pathname)
       => ( /\ res.status = 308
            /\ hasHeader("location")
            /\ res.headers["location"] = RedirectPath
            /\ res.body.kind = "none"
            /\ ~dotfileChecked
            /\ probes = <<root \o <<"/">> \o Pathname>> )
    /\ (Done /\ res.status = 308) => res.body.kind = "none"

\* the caller configured a header whose name is Content-Type or Location spelled
\* in another letter case
CaseVariantHeader ==
    \E e \in CallerHeaders :
        /\ lowercase(e[1]) \in {"content-type", "location"}
        /\ e[1] \notin {"Content-Type", "Location"}

\* the statement of C3 holds in every state without such a header
C3_WithoutCaseVariantHeader == ~CaseVariantHeader => C3_RedirectPrecedence

----------------------------------------------------------------------------
(* C4 *)

\* C4: a request for a regular file that needs no redirect and passes the
\* dotfile policy is answered 200 with the file's bytes and Content-Type exactly
\* "<mimeType or defaultMimeType>; charset=<charset>".
C4_FileServed ==
    ( /\ Done
      /\ Target.isFile
      /\ RedirectPath = Pathname
      /\ (~FinalSegmentDotted \/ options.dotfiles = "allow") )
    => ( /\ res.status = 200
         /\ res.body.kind = "blob"
         /\ res.body.file = Target.blob.file
         /\ hasHeader("content-type")
         /\ res.headers["content-type"] =
                contentType(orDefault(Target.mimeType, options.defaultMimeType),
                            options.charset) )

\* the statement of C4 holds in every state without a case-variant header
C4_WithoutCaseVariantHeader == ~CaseVariantHeader => C4_FileServed

----------------------------------------------------------------------------
(* C5 *)

----------------------------------------------------------------------------
(* C6 *)

\* C6: for a request for an existing directory that needs no redirect, when no
\* servable index file is found (index disabled, missing, or not a regular file)
\* the response is 403 with a plain-text body, never 200.
C6_NoIndexIs403 ==
    (Done /\ DirNoRedirect /\ ~IndexServable)
    => ( /\ res.status = 403
         /\ res.body.kind = "text"
         /\ res.body.text = "403 Forbidden" )

\* /aaa/, whose index entry is a directory, answered 403 with index enabled
C6_Witness ==
    /\ Done
    /\ DirNoRedirect
    /\ options.index # None
    /\ IndexProbe.exists /\ ~IndexProbe.isFile
    /\ res.status = 403

----------------------------------------------------------------------------
(* C7 *)

\* C7: with dotfiles = "deny", a request that targets an existing dotfile (a file
\* or a directory whose name begins with a dot) is never answered 200, and is
\* answered 403 when no redirect is needed.
C7_DotfilesDenied ==
    (Done /\ options.dotfiles = "deny" /\ Target.exists /\ TargetIsDotfile)
    => ( /\ res.status # 200
         /\ RedirectPath = Pathname => res.status = 403 )

----------------------------------------------------------------------------
(* C8 *)

\* C8: every response carries all the caller's extra headers with their values,
\* except that the resolver's own Content-Type (200, 403, 404) and Location (308)
\* keep the resolver's value, whatever names, in whatever letter case, the caller
\* supplies.
C8_ExtraHeadersMerged ==
    Done =>
      /\ \A e \in CallerHeaders :
            /\ hasHeader(lowercase(e[1]))
            /\ \/ lowercase(e[1]) = "content-type" /\ res.status # 308
               \/ lowercase(e[1]) = "location" /\ res.status = 308
               \/ res.headers[lowercase(e[1])] = e[2]
      /\ res.status # 308 =>
            hasHeader("content-type") /\ res.headers["content-type"] = OwnContentType
      /\ res.status = 308 =>
            hasHeader("location") /\ res.headers["location"] = RedirectPath

----------------------------------------------------------------------------
(* C9 *)

\* C9 as stated: every response, every 308 included, carries a Content-Type header.
C9_AlwaysContentType == Done => hasHeader("content-type")

\* C9, amended: every 200, 403 and 404 response carries a Content-Type header; a
\* 308 redirect carries one only when the caller's extra headers supply it.
C9_ContentTypeUnlessRedirect ==
    Done =>
      /\ res.status \in {200, 403, 404} => hasHeader("content-type")
      /\ (res.status = 308 /\ hasHeader("content-type")) => callerSupplies("content-type")

\* a 308 without any Content-Type header
C9_Witness ==
    /\ Done
    /\ res.status = 308
    /\ ~hasHeader("content-type")

----------------------------------------------------------------------------
(* C10 *)

\* C10 as stated: a response has a Location header if and only if its status is
\* 308, whatever extra headers are configured.
C10_LocationIff308 == Done => (hasHeader("location") <=> res.status = 308)

\* C10, amended: every 308 response has a Location header; a 200, 403 or 404
\* response has one only when the caller's extra headers supply it.
C10_LocationOwnOnly308 ==
    Done =>
      /\ res.status = 308 => hasHeader("location")
      /\ (res.status # 308 /\ hasHeader("location")) => callerSupplies("location")

\* a 404 without Location, from a resolver configured with extra headers that
\* do not name Location
C10_Witness ==
    /\ Done
    /\ res.status = 404
    /\ options.headers # None
    /\ ~callerSupplies("location")
    /\ ~hasHeader("location")

----------------------------------------------------------------------------
(* C11 *)

\* the middleware has sent the resolved response: sendRaw then forceSend, once
\* each, the context holding the response and locked
Sent == ctx = [res |-> Some(res), locked |-> TRUE, ops |-> <<"sendRaw", "forceSend">>]

\* the middleware has returned the context as it came: no send operation on it
Untouched == ctx = newContext

\* C11: the middleware sends the resolved response through the context and
\* marks it terminal (sendRaw then forceSend, exactly once) if and only if
\* handleErrors is true or the status is neither 403 nor 404; otherwise it
\* returns the incoming context with no send operation performed on it.
C11_SendsIffHandled ==
    (Done /\ handler.kind = "bao")
    => IF handler.handleErrors \/ res.status \notin {403, 404}
       THEN Sent
       ELSE Untouched

\* a 403 left to the other routes: handleErrors false, the context untouched
C11_Witness ==
    /\ Done /\ handler.kind = "bao"
    /\ ~handler.handleErrors
    /\ res.status = 403
    /\ Untouched

----------------------------------------------------------------------------
(* C12 *)

\* C12: in middleware mode with handleErrors not given, handleErrors is false:
\* a 403 or 404 outcome is not sent and the context is returned unmodified.
C12_DefaultNotSent ==
    ( /\ Done /\ handler.kind = "bao"
      /\ handler.passed = None
      /\ res.status \in {403, 404} )
    => (~handler.handleErrors /\ Untouched)

----------------------------------------------------------------------------
(* C13 *)

Collapsed == pc = "returned" /\ call.fn = "collapseSlashes"

\* C13: for every input string and every combination of keepLeading and
\* keepTrailing, the result of collapseSlashes has no two consecutive slashes.
C13_NoDoubleSlash ==
    Collapsed => \A i \in 1..Len(ret) : ~hasSlashRun(ret[i])

\* an input with runs of slashes at both ends and inside, both slashes kept
C13_Witness ==
    /\ Collapsed
    /\ call.str = <<"/", "/", "a", "/", "/">>
    /\ call.keepLeading = Some(TRUE) /\ call.keepTrailing = None
    /\ ret[1] = <<"/", "a", "/">>

----------------------------------------------------------------------------
(* C14 *)

\* C14: collapseSlashes is idempotent under matching flags: applied to its own
\* result with the same keepLeading and keepTrailing it returns that result,
\* for empty and all-slash inputs too.
C14_Idempotent ==
    (Collapsed /\ Len(ret) = 2) => ret[2] = ret[1]

\* the second call has returned, for an input that the first call changed and
\* for an all-slash input
C14_Witness ==
    /\ Collapsed /\ Len(ret) = 2
    /\ call.str = <<"a", "/", "/", "a">>
    /\ call.keepLeading = Some(FALSE) /\ call.keepTrailing = Some(TRUE)
    /\ ret[1] = <<"a", "/", "a", "/">>
    /\ ret[2] = ret[1]

----------------------------------------------------------------------------
(* C17 *)

keepLeadingOf(c) == orDefault(c.keepLeading, TRUE)
keepTrailingOf(c) == orDefault(c.keepTrailing, TRUE)

\* the string has a character other than the slash
hasName(s) == \E i \in 1..Len(s) : s[i] # "/"

\* C17 as stated: for every input string, the empty string and the strings made
\* only of slashes included, the result of collapseSlashes starts with a slash
\* exactly when keepLeading is true and ends with a slash exactly when
\* keepTrailing is true.
C17_EndsFollowFlags ==
    Collapsed
    => /\ startsWith(ret[1], "/") <=> keepLeadingOf(call)
       /\ endsWith(ret[1], "/") <=> keepTrailingOf(call)

\* C17 amended: for an input with a character other than the slash the result
\* starts with a slash exactly when keepLeading is true and ends with a slash
\* exactly when keepTrailing is true; for the empty string and the strings made
\* only of slashes the result is "/" when both flags are true and the empty
\* string otherwise.
C17_EndsFollowFlagsOfNames ==
    Collapsed
    => IF hasName(call.str)
       THEN /\ startsWith(ret[1], "/") <=> keepLeadingOf(call)
            /\ endsWith(ret[1], "/") <=> keepTrailingOf(call)
       ELSE ret[1] = IF keepLeadingOf(call) /\ keepTrailingOf(call)
                     THEN <<"/">> ELSE <<>>

\* an all-slash input with only the leading slash kept: the result is empty
C17_Witness ==
    /\ Collapsed
    /\ call.str = <<"/", "/">>
    /\ call.keepLeading = None /\ call.keepTrailing = Some(FALSE)
    /\ ret[1] = <<>>

----------------------------------------------------------------------------
(* C15 *)

\* the places of the string s where pat occurs
occurrences(s, pat) ==
    { i \in 1..Len(s) : i + Len(pat) - 1 <= Len(s) /\ SubSeq(s, i, i + Len(pat) - 1) = pat }

\* the URL pathname with exactly the first occurrence of the configured string
\* taken out; the URL pathname itself when nothing is configured or nothing occurs
StrippedPathname ==
    IF options.stripFromPathname = None THEN req
    ELSE LET pat == options.stripFromPathname[1]
             occ == occurrences(req, pat)
         IN  IF occ = {} THEN req
             ELSE LET first == CHOOSE i \in occ : \A j \in occ : i <= j
                  IN  SubSeq(req, 1, first - 1) \o SubSeq(req, first + Len(pat), Len(req))

\* C15: with stripFromPathname a non-empty string, the pathname that is probed
\* and redirected to is the URL pathname with exactly the first occurrence of
\* that string removed (later occurrences kept, a pathname without the string
\* unchanged); with stripFromPathname not configured it is the URL pathname.
C15_FirstOccurrenceStripped ==
    Done
    => /\ probes[1] = root \o <<"/">> \o StrippedPathname
       /\ (res.status = 308 /\ options.headers = None)
          => joinSegments(split(res.headers["location"]))
               = joinSegments(split(StrippedPathname))

\* /a/a with /a stripped: the directory a is probed and redirected to, the later
\* occurrence kept
C15_Witness ==
    /\ Done
    /\ options.stripFromPathname = Some(<<"/", "a">>)
    /\ options.headers = None
    /\ req = <<"/", "a", "/", "a">>
    /\ probes[1] = root \o <<"/", "/", "a">>
    /\ res.status = 308
    /\ res.headers["location"] = <<"/", "a", "/">>

----------------------------------------------------------------------------
(* C16 *)

\* the string without its trailing slashes
RECURSIVE trimTrailingSlashes(_)
trimTrailingSlashes(s) ==
    IF endsWith(s, "/") THEN trimTrailingSlashes(SubSeq(s, 1, Len(s) - 1)) ELSE s

\* the entry the pathname names once its trailing slashes are dropped
NamedEntry == walk(<<>>, split(root \o <<"/">> \o trimTrailingSlashes(Pathname)))

\* the request names a regular file of the tree, with or without a trailing slash
NamesFile == NamedEntry.err = "" /\ NamedEntry.node \in FSFiles

\* C16 as stated: with collapseSlashes enabled and a regular file as the target,
\* the computed redirect path never ends with a slash, and a request for a file
\* with a trailing slash is redirected to the pathname without it.
C16_FileRedirectNoTrailingSlash ==
    (Done /\ options.collapseSlashes /\ options.headers = None /\ NamesFile)
    => /\ ~endsWith(RedirectPath, "/")
       /\ endsWith(Pathname, "/")
          => /\ res.status = 308
             /\ ~endsWith(res.headers["location"], "/")

\* C16 amended: with collapseSlashes enabled, a request whose probe reports a
\* regular file has a redirect path that does not end with a slash, because its
\* pathname has no trailing slash: getRedirectPath keeps the trailing slash of a
\* pathname also for a regular file (its result ends with a slash exactly when
\* the pathname does), and a request that names a regular file with a trailing
\* slash is not redirected: its probe reports exists = false and it is answered
\* 404.
C16_TrailingSlashKept ==
    (Done /\ options.collapseSlashes)
    => /\ Target.isFile => (~endsWith(Pathname, "/") /\ ~endsWith(RedirectPath, "/"))
       /\ endsWith(getRedirectPath(Pathname,
                                   [Target EXCEPT !.exists = TRUE, !.isFile = TRUE],
                                   options), "/")
          <=> endsWith(Pathname, "/")
       /\ (NamesFile /\ endsWith(Pathname, "/"))
          => (~Target.exists /\ res.status = 404)

\* /a.a/ where a.a is a regular file: answered 404
C16_Witness ==
    /\ Done
    /\ options.collapseSlashes
    /\ options.stripFromPathname = None
    /\ req = <<"/", "a", ".", "a", "/">>
    /\ NamesFile
    /\ res.status = 404

----------------------------------------------------------------------------
(* C18 *)

Probed == pc = "returned" /\ call.fn = "getFileInfo"

\* what the path of the call names in the file tree
CalledEntry == walk(<<>>, split(call.path))

----------------------------------------------------------------------------
(* C19 *)

\* the read of the requested path fails, and neither because nothing is found
\* nor because the path is a directory
OtherReadFailure ==
    arrayBuffer(root \o <<"/">> \o Pathname).code \notin {"", "EISDIR", "ENOENT", "ENOTDIR"}

\* C19 as stated: a failure of the read other than "not found" or "is a
\* directory" is not converted into a 404 or any other normal response.
C19_OtherFailureNotAResponse ==
    (Done /\ OtherReadFailure) => res.status \notin {200, 308, 403, 404}

\* C19 amended: a failure of the read other than "is a directory" (permission
\* denied, say) is caught by getFileInfo and reported as exists = false and
\* isFile = false, and the resolver answers 404 for it as for a missing path.
C19_OtherFailureIs404 ==
    (Done /\ OtherReadFailure)
    => /\ ~Target.exists /\ ~Target.isFile
       /\ res.status = 404
       /\ Len(probes) = 1

\* the request for a/aa, a file the server may not read, answered 404
C19_Witness ==
    /\ Done
    /\ OtherReadFailure
    /\ Pathname = <<"/", "a", "/", "a", "a">>
    /\ res.status = 404

----------------------------------------------------------------------------
(* C20 *)

\* C20: the index file is never probed when the requested path is not a
\* directory: for every request whose target is a regular file, a dotfile
\* refused by dotfiles = "deny" included, no probe of root + path + "/" + index is
\* performed and no index content is served for it.
C20_NoIndexProbeForFile ==
    (Done /\ Target.isFile)
    => /\ Len(probes) = 1
       /\ res.status = 200 => res.body.file = Target.blob.file

----------------------------------------------------------------------------
(* C21 *)

\* C21: every invocation of the resolver ends with one response whose status is
\* 200, 308, 403 or 404, after at most two file probes in sequence: the requested
\* path first, the index file only after it and only if the first probe reported
\* that the path exists and no redirect was issued.
C21_OneResponseTwoProbes ==
    Done
    => /\ res # None /\ res.status \in {200, 308, 403, 404}
       /\ Len(probes) \in {1, 2}
       /\ probes[1] = root \o <<"/">> \o Pathname
       /\ Len(probes) = 2
          => /\ options.index # None
             /\ probes[2] = IndexPath
             /\ Target.exists
             /\ RedirectPath = Pathname
             /\ res.status # 308

\* a directory that needs no redirect: the index is probed second and served
C21_Witness ==
    /\ Done
    /\ req = <<"/", "a", "/">>
    /\ options.stripFromPathname = None
    /\ Len(probes) = 2
    /\ probes[2] = root \o <<"/", "/", "a", "/", "/">> \o nIndex
    /\ res.status = 200

----------------------------------------------------------------------------
(* C22 *)

Followed == pc = "followed"

\* the entries of the file tree the first and the second request of the client
\* were about: probes[1] is the probe of the redirected request, probes[2] the
\* first probe of the request for its Location
FirstEntry == walk(<<>>, split(probes[1]))
SecondEntry == walk(<<>>, split(probes[2]))

\* C22: redirects converge in one step: for every configuration, a configured
\* stripFromPathname included, a client that requests the Location of a 308
\* response on the same host is answered with a response that is no 308 and is
\* about the same filesystem entry as the request that was redirected.
C22_RedirectConverges ==
    Followed
    => /\ res.status # 308
       /\ SecondEntry = FirstEntry

----------------------------------------------------------------------------
(* C23 *)

hasDotDotSegment(path) == \E i \in 1..Len(split(path)) : split(path)[i] = <<".", ".">>

\* the file of the tree lies below the served root
insideRoot(file) == Len(file) > 2 /\ SubSeq(file, 1, 2) = <<nW, nR>>

\* C23: every path the resolver probes or serves stays inside the root
\* directory: for a URL pathname without a ".." segment, the paths passed to
\* getFileInfo for the requested target and for the index file have no ".."
\* segment, whatever stripFromPathname and index are configured.
C23_ProbesInsideRoot ==
    Done
    => /\ \A i \in 1..Len(probes) : ~hasDotDotSegment(probes[i])
       /\ res.status = 200 => insideRoot(res.body.file)

====
